---- MODULE Spec2Model ----
(***************************************************************************)
(* A model of btb.OffScreenRenderer (pkg_blender/blendtorch/btb/           *)
(* offscreen.py): the constructor with its two asserted options, render()  *)
(* as the sequence of its statements, set_render_style() and the pure      *)
(* helpers np.flipud and _color_correct.                                   *)
(*                                                                         *)
(* Images are sequences of rows, rows are sequences of pixels, pixels are  *)
(* sequences of 3 or 4 bytes.  Row 1 is numpy row 0.  A numpy array value  *)
(* handed around by render() is a reference: either a view onto            *)
(* self.buffer (possibly row-reversed) or an array with storage of its own.*)
(*                                                                         *)
(* Gamma coefficients are rationals num/den.  For the coefficients used    *)
(* here (1, 2, 3, 1/2, 1/3 and -2) the float32 evaluation of               *)
(* 255.0 * (x/255)**(1/coeff) has the same integer part as the exact value *)
(* for every byte x, and the integer part of the exact value is what       *)
(* GammaValue computes.                                                    *)
(***************************************************************************)
EXTENDS Integers, Sequences, FiniteSets, TLC

\* Bounds of the model.
MaxH == 3
MaxW == 2
NumScenes == 2

\* The largest channel value (the 255 of _color_correct).
MaxByte == 255

Bytes == 0..MaxByte

----------------------------------------------------------------------------
\* Values

\* gamma_coeff: None, or a number num/den (den > 0).
NoneCoeff == [isNone |-> TRUE, num |-> 0, den |-> 1]
Rat(n, d) == [isNone |-> FALSE, num |-> n, den |-> d]

\* Python truthiness of gamma_coeff, as tested by `if self.gamma_coeff:`.
Truthy(g) == ~g.isNone /\ g.num # 0

\* Coefficients _color_correct is tried with: 1, 2, 3, 1/2, 1/3 and -2.
GammaCoeffs == {Rat(1, 1), Rat(2, 1), Rat(3, 1), Rat(1, 2), Rat(1, 3), Rat(-2, 1)}

\* Values passed as gamma_coeff to the constructor: None, 0, 2, 1/3 and -2.
GammaArgs == {NoneCoeff, Rat(0, 1), Rat(2, 1), Rat(1, 3), Rat(-2, 1)}

ModeArgs == {"rgba", "rgb", "RGBA"}
OriginArgs == {"upper-left", "lower-left", "center"}
Shapes == {<<MaxH, MaxW>>, <<MaxW, MaxH>>}
ShadingTypes == {"SOLID", "RENDERED"}

\* How the host's first 3D viewport may be configured to begin with.
ViewportStyles == {<<"SOLID", "True">>, <<"RENDERED", "False">>}

\* What converting an out-of-range float to uint8 may yield: the value
\* modulo 256 (infinity giving 0) or the saturated value.
CastModes == {"wrap", "saturate"}

NoImage == [base |-> "none", flipped |-> FALSE, data |-> <<>>]
BufferRef == [base |-> "buffer", flipped |-> FALSE, data |-> <<>>]
Fresh(d) == [base |-> "fresh", flipped |-> FALSE, data |-> d]

----------------------------------------------------------------------------
\* Pure helpers

Abs(n) == IF n < 0 THEN -n ELSE n

RECURSIVE IPow(_, _)
IPow(b, e) == IF e = 0 THEN 1 ELSE b * IPow(b, e - 1)

\* Largest v in lo..hi with v^q <= n (lo^q <= n is given).
RECURSIVE RootSearch(_, _, _, _)
RootSearch(q, n, lo, hi) ==
    IF lo = hi THEN lo
    ELSE LET mid == (lo + hi + 1) \div 2
         IN IF IPow(mid, q) <= n THEN RootSearch(q, n, mid, hi)
            ELSE RootSearch(q, n, lo, mid - 1)

\* The first of h, 2h, 4h, ... whose q-th power exceeds n.
RECURSIVE Above(_, _, _)
Above(q, n, h) == IF IPow(h, q) > n THEN h ELSE Above(q, n, 2 * h)

\* The integer part of the q-th root of n.
IRoot(q, n) == IF q = 1 THEN n ELSE RootSearch(q, n, 0, Above(q, n, 1))

\* np.zeros((h, w, channels), dtype=np.uint8)
Zeros(h, w, channels) == [i \in 1..h |-> [j \in 1..w |-> [c \in 1..channels |-> 0]]]

\* np.flipud: the rows in reverse order.
Fliplr(b) == [i \in 1..Len(b) |-> [j \in 1..Len(b[i]) |-> b[i][Len(b[i]) + 1 - j]]]
Flipud(b) == [i \in 1..Len(b) |-> b[Len(b) + 1 - i]]

\* The value 255.0 * (a/255)**(1/coeff) truncated toward zero, before it is
\* stored as a byte; coeff = num/den, so the exponent is den/num.  For a
\* negative coeff, a must not be 0 (the value is then infinite).
GammaValue(a, coeff) ==
    LET p == coeff.den
        q == Abs(coeff.num)
    IN IF coeff.num < 0
       THEN IRoot(q, IPow(MaxByte, q + p) \div IPow(a, p))
       ELSE IF q >= p
            THEN IRoot(q, IPow(MaxByte, q - p) * IPow(a, p))
            ELSE IRoot(q, IPow(a, p) \div IPow(MaxByte, p - q))

\* np.uint8(x) of a non-negative float: exact inside 0..255; outside, the
\* conversion is undefined and the build decides (cast).
ToInt8(v, cast) ==
    IF v <= MaxByte \div 2 THEN v
    ELSE IF v <= MaxByte THEN v - (MaxByte + 1)
    ELSE IF cast = "wrap" THEN v % (MaxByte + 1) ELSE MaxByte
ToUint8(v, cast) ==
    IF v <= MaxByte THEN v
    ELSE IF cast = "wrap" THEN v % (MaxByte + 1) ELSE MaxByte

\* One channel through _color_correct.
GammaByte(a, coeff, cast) ==
    IF coeff.num < 0 /\ a = 0
    THEN (IF cast = "wrap" THEN 0 ELSE MaxByte)
    ELSE ToUint8(GammaValue(a, coeff), cast)

\* _color_correct(buffer, coeff): the first three channels remapped, a
\* fourth channel (when there is one) concatenated unchanged.
ColorCorrectAllChannels(buf, coeff, cast) ==
    [i \in 1..Len(buf) |->
        [j \in 1..Len(buf[i]) |->
            [c \in 1..Len(buf[i][j]) |-> GammaByte(buf[i][j][c], coeff, cast)]]]
ColorCorrectRgbOnly(buf, coeff, cast) ==
    [i \in 1..Len(buf) |->
        [j \in 1..Len(buf[i]) |->
            [c \in 1..3 |-> GammaByte(buf[i][j][c], coeff, cast)]]]
ColorCorrect(buf, coeff, cast) ==
    [i \in 1..Len(buf) |->
        [j \in 1..Len(buf[i]) |->
            LET px == buf[i][j]
                rgb == [c \in 1..3 |-> GammaByte(px[c], coeff, cast)]
            IN IF Len(px) = 4 THEN rgb \o SubSeq(px, 4, 4) ELSE rgb]]

\* The colour texture the host's draw_view3d leaves in the offscreen target
\* for scene k: h rows of w RGBA texels, row 1 the bottom of the picture.
Texel(k, i, j) ==
    << (37 * k + 90 * i + 11 * j) % (MaxByte + 1),
       (64 * i + 3 * k) % (MaxByte + 1),
       (200 + k - 50 * j) % (MaxByte + 1),
       (128 + 13 * k + 7 * i) % (MaxByte + 1) >>

SceneTexture(k, h, w) == [i \in 1..h |-> [j \in 1..w |-> Texel(k, i, j)]]

\* glGetTexImage(GL_TEXTURE_2D, 0, format, GL_UNSIGNED_BYTE, ...): the
\* texels in the requested format, GL_RGBA or GL_RGB.
ReadBack(tex, format) ==
    [i \in 1..Len(tex) |->
        [j \in 1..Len(tex[i]) |->
            IF format = "GL_RGBA" THEN tex[i][j] ELSE SubSeq(tex[i][j], 1, 3)]]

\* The two constructor assertions.
ValidModeAnyCase(m) == m \in {"rgba", "rgb", "RGBA", "RGB"}
ValidMode(m) == m \in {"rgba", "rgb"}
ValidOrigin(o) == o \in {"upper-left", "lower-left"}

\* channels = 4 if mode=='rgba' else 3
Channels(m) == IF m = "rgba" THEN 4 ELSE 3

\* self.mode = bgl.GL_RGBA if mode=='rgba' else bgl.GL_RGB
GLFormat(m) == IF m = "rgba" THEN "GL_RGBA" ELSE "GL_RGB"

\* The statements of render(), in program order, for a renderer with the
\* given origin and gamma_coeff.
RenderStepsOriginInverted(o, g) ==
    <<"bind", "draw", "read", "unbind", "assign">>
    \o (IF o = "lower-left" THEN <<"flip">> ELSE <<>>)
    \o (IF Truthy(g) THEN <<"gamma">> ELSE <<>>)
    \o <<"return">>
RenderStepsReadOutside(o, g) ==
    <<"bind", "draw", "unbind", "read", "assign">>
    \o (IF o = "upper-left" THEN <<"flip">> ELSE <<>>)
    \o (IF Truthy(g) THEN <<"gamma">> ELSE <<>>)
    \o <<"return">>
RenderSteps(o, g) ==
    <<"bind", "draw", "read", "unbind", "assign">>
    \o (IF o = "upper-left" THEN <<"flip">> ELSE <<>>)
    \o (IF Truthy(g) THEN <<"gamma">> ELSE <<>>)
    \o <<"return">>

\* set_render_style's defaults: shading='RENDERED', overlays=False.
Missing == "missing"
OverlaysOfDefaultOn(arg) == IF arg = Missing THEN "True" ELSE arg
ShadingOf(arg) == IF arg = Missing THEN "RENDERED" ELSE arg
OverlaysOf(arg) == IF arg = Missing THEN "False" ELSE arg

----------------------------------------------------------------------------
\* State

VARIABLES
    pc,           \* "new", "failed", "idle" or "render"
    ip,           \* inside render(): the index of the next statement
    args,         \* the arguments the constructor was called with
    error,        \* the exception the constructor raised, or "none"
    shape,        \* camera.shape, <<height, width>>
    offscreen,    \* the GPUOffScreen: how many were created, size, bound
    viewFound,    \* find_first_view3d() has been called
    shading,      \* space.shading.type of the reused viewport
    overlays,     \* space.overlay.show_overlays of the reused viewport
    origin,       \* self.origin
    gamma_coeff,  \* self.gamma_coeff
    mode,         \* self.mode, a GL format
    buffer,       \* self.buffer
    texture,      \* the offscreen target's colour texture
    image,        \* render()'s local variable `buffer`
    returned,     \* the array the last finished render() returned
    retSnap,      \* the contents `returned` had when it was returned
    trace,        \* the statements the current (or last) render() has run
    requested,    \* the arguments of the last set_render_style() call
    ownStyle      \* the viewport's style before any set_render_style()

vars == <<pc, ip, args, error, shape, offscreen, viewFound, shading, overlays,
          origin, gamma_coeff, mode, buffer, texture, image, returned,
          retSnap, trace, requested, ownStyle>>

host == <<shading, overlays, requested, ownStyle>>
fields == <<shape, offscreen, viewFound, origin, gamma_coeff, mode>>

NoArgs == [mode |-> "", origin |-> ""]
NoOffscreen == [created |-> 0, width |-> 0, height |-> 0, bound |-> FALSE]
NoStyle == <<"", "">>

\* The contents seen through an array reference.
Deref(ref) ==
    IF ref.base = "fresh" THEN ref.data
    ELSE IF ref.base = "buffer"
         THEN (IF ref.flipped THEN Flipud(buffer) ELSE buffer)
         ELSE <<>>

\* np.flipud applied to an array reference: a view, never a copy.
FlipudCopy(ref) == Fresh(Flipud(Deref(ref)))
FlipudRef(ref) ==
    IF ref.base = "fresh"
    THEN [ref EXCEPT !.data = Flipud(ref.data)]
    ELSE [ref EXCEPT !.flipped = ~ref.flipped]

\* Before the constructor runs: only the host's viewport exists.
Init ==
    /\ pc = "new"
    /\ ip = 0
    /\ args = NoArgs
    /\ error = "none"
    /\ shape = <<0, 0>>
    /\ offscreen = NoOffscreen
    /\ viewFound = FALSE
    /\ ownStyle \in ViewportStyles
    /\ shading = ownStyle[1]
    /\ overlays = ownStyle[2]
    /\ requested = NoStyle
    /\ origin = ""
    /\ gamma_coeff = NoneCoeff
    /\ mode = ""
    /\ buffer = <<>>
    /\ texture = <<>>
    /\ image = NoImage
    /\ returned = NoImage
    /\ retSnap = <<>>
    /\ trace = <<>>

----------------------------------------------------------------------------
\* OffScreenRenderer.__init__

Construct(cam, m, o, g) ==
    /\ pc = "new"
    /\ args' = [mode |-> m, origin |-> o]
    /\ IF ValidMode(m) /\ ValidOrigin(o)
       THEN /\ pc' = "idle"
            /\ error' = "none"
            /\ shape' = cam
            /\ offscreen' = [created |-> offscreen.created + 1,
                             width |-> cam[2], height |-> cam[1],
                             bound |-> FALSE]
            /\ viewFound' = TRUE
            /\ origin' = o
            /\ gamma_coeff' = g
            /\ buffer' = Zeros(cam[1], cam[2], Channels(m))
            /\ mode' = GLFormat(m)
       ELSE /\ pc' = "failed"
            /\ error' = "AssertionError"
            /\ UNCHANGED <<fields, buffer>>
    /\ UNCHANGED <<ip, host, texture, image, returned, retSnap, trace>>

----------------------------------------------------------------------------
\* OffScreenRenderer.render, statement by statement

\* The statement render() runs next: its first one when a call starts.
AtStep(label) ==
    \/ pc = "idle" /\ RenderSteps(origin, gamma_coeff)[1] = label
    \/ pc = "render" /\ RenderSteps(origin, gamma_coeff)[ip] = label

\* Move past the statement just run, logging it with the binding it ran under.
Advance(label) ==
    LET at == IF pc = "idle" THEN 1 ELSE ip
        ev == [op |-> label, bound |-> offscreen.bound]
    IN /\ trace' = (IF pc = "idle" THEN <<>> ELSE trace) \o <<ev>>
       /\ IF at = Len(RenderSteps(origin, gamma_coeff))
          THEN pc' = "idle" /\ ip' = 0
          ELSE pc' = "render" /\ ip' = at + 1

\* with self.offscreen.bind():
RenderBind ==
    /\ AtStep("bind")
    /\ offscreen' = [offscreen EXCEPT !.bound = TRUE]
    /\ Advance("bind")
    /\ UNCHANGED <<args, error, shape, viewFound, host, origin, gamma_coeff,
                   mode, buffer, texture, image, returned, retSnap>>

\* self.offscreen.draw_view3d(scene, view_layer, space, region, view, proj)
RenderDraw ==
    /\ AtStep("draw")
    /\ \E k \in 1..NumScenes :
          texture' = SceneTexture(k, offscreen.height, offscreen.width)
    /\ Advance("draw")
    /\ UNCHANGED <<args, error, fields, host, buffer, image, returned, retSnap>>

\* glGetTexImage(GL_TEXTURE_2D, 0, self.mode, GL_UNSIGNED_BYTE, self.buffer)
RenderRead ==
    /\ AtStep("read")
    /\ buffer' = ReadBack(texture, mode)
    /\ Advance("read")
    /\ UNCHANGED <<args, error, fields, host, texture, image, returned, retSnap>>

\* leaving the with block
RenderUnbind ==
    /\ AtStep("unbind")
    /\ offscreen' = [offscreen EXCEPT !.bound = FALSE]
    /\ Advance("unbind")
    /\ UNCHANGED <<args, error, shape, viewFound, host, origin, gamma_coeff,
                   mode, buffer, texture, image, returned, retSnap>>

\* buffer = self.buffer
RenderAssign ==
    /\ AtStep("assign")
    /\ image' = BufferRef
    /\ Advance("assign")
    /\ UNCHANGED <<args, error, fields, host, buffer, texture, returned, retSnap>>

\* buffer = np.flipud(buffer)
RenderFlip ==
    /\ AtStep("flip")
    /\ image' = FlipudRef(image)
    /\ Advance("flip")
    /\ UNCHANGED <<args, error, fields, host, buffer, texture, returned, retSnap>>

\* buffer = self._color_correct(buffer, self.gamma_coeff)
RenderGamma ==
    /\ AtStep("gamma")
    /\ \E cast \in CastModes :
          image' = Fresh(ColorCorrect(Deref(image), gamma_coeff, cast))
    /\ Advance("gamma")
    /\ UNCHANGED <<args, error, fields, host, buffer, texture, returned, retSnap>>

\* return buffer
RenderReturn ==
    /\ AtStep("return")
    /\ returned' = image
    /\ retSnap' = Deref(image)
    /\ image' = NoImage
    /\ Advance("return")
    /\ UNCHANGED <<args, error, fields, host, buffer, texture>>

----------------------------------------------------------------------------
\* OffScreenRenderer.set_render_style

SetRenderStyle(s, o) ==
    /\ pc = "idle"
    /\ shading' = ShadingOf(s)
    /\ overlays' = OverlaysOf(o)
    /\ requested' = <<s, o>>
    /\ UNCHANGED <<pc, ip, args, error, fields, ownStyle, buffer, texture,
                   image, returned, retSnap, trace>>

----------------------------------------------------------------------------

Next ==
    \/ \E cam \in Shapes, m \in ModeArgs, o \in OriginArgs, g \in GammaArgs :
          Construct(cam, m, o, g)
    \/ RenderBind
    \/ RenderDraw
    \/ RenderRead
    \/ RenderUnbind
    \/ RenderAssign
    \/ RenderFlip
    \/ RenderGamma
    \/ RenderReturn
    \/ \E s \in ShadingTypes \cup {Missing}, o \in {"True", "False", Missing} :
          SetRenderStyle(s, o)

Spec == Init /\ [][Next]_vars

----------------------------------------------------------------------------
\* _color_correct on every pair of channel values: a renderer of a one-pixel
\* rgb camera, about to run the gamma statement of render() on a pixel
\* <<a, b, a>> with a <= b that it has just read back.

InitGamma ==
    /\ pc = "render"
    /\ ip = 6
    /\ args = [mode |-> "rgb", origin |-> "lower-left"]
    /\ error = "none"
    /\ shape = <<1, 1>>
    /\ offscreen = [created |-> 1, width |-> 1, height |-> 1, bound |-> FALSE]
    /\ viewFound = TRUE
    /\ shading = "SOLID"
    /\ overlays = "True"
    /\ ownStyle = <<shading, overlays>>
    /\ requested = NoStyle
    /\ origin = "lower-left"
    /\ gamma_coeff \in GammaCoeffs
    /\ mode = "GL_RGB"
    /\ \E a \in Bytes, b \in Bytes :
          /\ a <= b
          /\ texture = << << <<a, b, a, MaxByte>> >> >>
    /\ buffer = ReadBack(texture, mode)
    /\ image = BufferRef
    /\ returned = NoImage
    /\ retSnap = <<>>
    /\ trace = << [op |-> "bind", bound |-> FALSE], [op |-> "draw", bound |-> TRUE],
                  [op |-> "read", bound |-> TRUE], [op |-> "unbind", bound |-> TRUE],
                  [op |-> "assign", bound |-> FALSE] >>

NextGamma ==
    \/ RenderGamma
    \/ RenderReturn

SpecGamma == InitGamma /\ [][NextGamma]_vars

----------------------------------------------------------------------------
\* Properties

\* A render() call has finished and nothing has run since but
\* set_render_style().
Finished == pc = "idle" /\ returned # NoImage

Height == shape[1]
Width == shape[2]

\* The texture row that row i of the result shows, by origin.
SourceRow(i) == IF origin = "upper-left" THEN Height + 1 - i ELSE i

Ops == [i \in 1..Len(trace) |-> trace[i].op]
Ran(label) == \E i \in 1..Len(trace) : trace[i].op = label
Count(label) == Cardinality({i \in 1..Len(trace) : trace[i].op = label})

C2_AlphaUntouched ==
    (Finished /\ mode = "GL_RGBA" /\ Truthy(gamma_coeff)) =>
        LET out == Deref(returned)
            n == gamma_coeff.num
            d == gamma_coeff.den
        IN \A i \in 1..Height, j \in 1..Width :
              /\ Len(out[i][j]) = 4
              /\ out[i][j][4] = texture[SourceRow(i)][j][4]
              /\ \A c \in 1..3 :
                    LET v == out[i][j][c]
                        a == texture[SourceRow(i)][j][c]
                    IN /\ v \in Bytes
                       /\ (n > 0 /\ n >= d) =>
                            /\ IPow(v, n) <= IPow(MaxByte, n - d) * IPow(a, d)
                            /\ IPow(MaxByte, n - d) * IPow(a, d) < IPow(v + 1, n)
                       /\ (n > 0 /\ n < d) =>
                            /\ IPow(v, n) * IPow(MaxByte, d - n) <= IPow(a, d)
                            /\ IPow(a, d) < IPow(v + 1, n) * IPow(MaxByte, d - n)

C2_Witness ==
    /\ Finished
    /\ mode = "GL_RGBA"
    /\ gamma_coeff = Rat(2, 1)
    /\ origin = "upper-left"
    /\ Deref(returned)[1][1][4] = texture[Height][1][4]
    /\ Deref(returned)[1][1][4] # GammaByte(texture[Height][1][4], gamma_coeff, "wrap")
    /\ Deref(returned)[1][1][1] # texture[Height][1][1]

\* C4: the flip render() uses maps row i to row H-1-i without changing a
\* pixel, and flipping twice gives back the original buffer.
C4_FlipSelfInverse ==
    /\ Len(Flipud(buffer)) = Len(buffer)
    /\ \A i \in 1..Len(buffer) : Flipud(buffer)[i] = buffer[Len(buffer) + 1 - i]
    /\ Flipud(Flipud(buffer)) = buffer
    /\ (pc = "render" /\ Ran("flip") /\ ~Ran("gamma")) =>
          /\ \A i \in 1..Height : Deref(image)[i] = buffer[Height + 1 - i]
          /\ Deref(FlipudRef(image)) = buffer

C4_Witness ==
    /\ pc = "render"
    /\ Ran("flip")
    /\ ~Ran("gamma")
    /\ Height = MaxH
    /\ Deref(image) # buffer
    /\ Deref(image)[1] = buffer[Height]
    /\ buffer[1] # buffer[Height]

\* C5: with origin 'upper-left' row i of the returned image is row H-1-i of
\* the read-back texture, with 'lower-left' it is row i, in both modes
\* (gamma-corrected when correction applies).
C5_OriginDecidesRowOrder ==
    Finished =>
        LET out == Deref(returned)
            raw == ReadBack(texture, mode)
        IN /\ Len(out) = Height
           /\ \A i \in 1..Height :
                 IF Truthy(gamma_coeff)
                 THEN \E cast \in CastModes :
                         out[i] = ColorCorrect(<<raw[SourceRow(i)]>>, gamma_coeff, cast)[1]
                 ELSE out[i] = raw[SourceRow(i)]

C5_Witness ==
    /\ Finished
    /\ origin = "upper-left"
    /\ mode = "GL_RGB"
    /\ ~Truthy(gamma_coeff)
    /\ Height = MaxH
    /\ Deref(returned)[1] = ReadBack(texture, mode)[Height]
    /\ Deref(returned)[1] # ReadBack(texture, mode)[1]

\* The read-back bytes as the origin orders them.
OriginView(raw) == [i \in 1..Len(raw) |-> raw[SourceRow(i)]]

\* C6: render() gamma-corrects the result whenever gamma_coeff is not None,
\* and returns the read-back bytes (after the origin flip) when it is None.
C6_GammaWheneverNotNone ==
    Finished =>
        /\ ~gamma_coeff.isNone => Ran("gamma")
        /\ gamma_coeff.isNone =>
              /\ ~Ran("gamma")
              /\ Deref(returned) = OriginView(ReadBack(texture, mode))

\* C7: every render() returns an H x W x D array, (H, W) the camera's shape
\* the offscreen target was created with, D = 4 for 'rgba' and 3 for 'rgb',
\* whatever origin and gamma_coeff are and whatever was called before.
C7_ResultShape ==
    /\ pc \in {"idle", "render"} =>
          /\ offscreen.width = Width
          /\ offscreen.height = Height
          /\ shape \in Shapes
    /\ Finished =>
          LET out == Deref(returned)
          IN /\ Len(out) = Height
             /\ \A i \in 1..Len(out) :
                   /\ Len(out[i]) = Width
                   /\ \A j \in 1..Len(out[i]) :
                         Len(out[i][j]) = (IF args.mode = "rgba" THEN 4 ELSE 3)

C7_Witness ==
    /\ Finished
    /\ args.mode = "rgba"
    /\ origin = "upper-left"
    /\ Truthy(gamma_coeff)
    /\ requested # NoStyle
    /\ shape = <<MaxH, MaxW>>
    /\ Len(Deref(returned)) = MaxH
    /\ Len(Deref(returned)[1]) = MaxW
    /\ Len(Deref(returned)[1][1]) = 4

\* The place of each statement in the order render() must keep.
Rank(label) ==
    CASE label = "bind" -> 1
      [] label = "draw" -> 2
      [] label = "read" -> 3
      [] label = "unbind" -> 4
      [] label = "assign" -> 5
      [] label = "flip" -> 6
      [] label = "gamma" -> 7
      [] label = "return" -> 8

C9_Aliasing ==
    /\ Finished => (returned.base = "buffer" <=> ~Ran("gamma"))
    /\ Finished => (returned.base = "fresh" <=> Ran("gamma"))
    /\ (returned.base = "buffer" /\ Ran("read")) =>
          Deref(returned) = (IF returned.flipped
                             THEN [i \in 1..Height |-> ReadBack(texture, mode)[Height + 1 - i]]
                             ELSE ReadBack(texture, mode))
    /\ Finished => (returned.flipped <=> (origin = "upper-left" /\ ~Ran("gamma")))
    /\ returned.base = "fresh" => Deref(returned) = retSnap
    /\ Ran("read") => buffer = ReadBack(texture, mode)

C9_Witness ==
    /\ pc = "render"
    /\ Ran("read")
    /\ returned.base = "buffer"
    /\ returned.flipped
    /\ Deref(returned) # retSnap

\* The style set_render_style was last asked for, with its defaults.
RequestedStyle ==
    << IF requested[1] = "missing" THEN "RENDERED" ELSE requested[1],
       IF requested[2] = "missing" THEN "False" ELSE requested[2] >>

\* The viewport shows the style last asked for, or its own.
StyleInEffect ==
    pc \in {"idle", "render"} =>
        <<shading, overlays>> = (IF requested = NoStyle THEN ownStyle ELSE RequestedStyle)

\* C10: set_render_style sets the viewport's shading type and overlay flag to
\* its arguments (defaults 'RENDERED', False) and changes nothing else;
\* render() never changes them: the style in effect is the last one set, or
\* the viewport's own when none was.
C10_StyleFrame ==
    /\ []StyleInEffect
    /\ [][(pc = "idle" /\ pc' = "idle") =>
              UNCHANGED <<buffer, mode, origin, gamma_coeff, shape, offscreen,
                          texture, returned, retSnap, image, trace, ownStyle>>]_vars
    /\ [][(pc = "render" \/ pc' = "render") =>
              UNCHANGED <<shading, overlays, requested, ownStyle>>]_vars

C10_Witness ==
    /\ pc = "render"
    /\ Ran("draw")
    /\ returned # NoImage
    /\ requested = <<"missing", "missing">>
    /\ ownStyle = <<"SOLID", "True">>
    /\ <<shading, overlays>> = <<"RENDERED", "False">>

\* The array render() holds or has returned once the gamma statement ran.
Corrected == IF pc = "render" THEN Deref(image) ELSE Deref(returned)

\* Channel values in order stay in order, and inside 0..255.
MonotoneBounded ==
    \A i \in 1..Height, j \in 1..Width :
        \A c1 \in 1..3, c2 \in 1..3 :
            buffer[i][j][c1] <= buffer[i][j][c2] =>
                /\ 0 <= Corrected[i][j][c1]
                /\ Corrected[i][j][c1] <= Corrected[i][j][c2]
                /\ Corrected[i][j][c2] <= MaxByte

\* C3 as stated: for every coefficient _color_correct is applied with and
\* every a <= b in 0..255, 0 <= out(a) <= out(b) <= 255.
C3_MonotoneAnyCoeff == Ran("gamma") => MonotoneBounded

\* C3, amended: the same for every positive coefficient.
C3_MonotonePositiveCoeff ==
    (Ran("gamma") /\ gamma_coeff.num > 0) => MonotoneBounded

C3_Witness ==
    /\ Ran("gamma")
    /\ gamma_coeff = Rat(2, 1)
    /\ buffer[1][1][1] < buffer[1][1][2]
    /\ buffer[1][1][2] < MaxByte
    /\ Corrected[1][1][1] < Corrected[1][1][2]
    /\ Corrected[1][1][2] > buffer[1][1][2]
====
